---- MODULE Spec2Model ----
\* A model of the gdl downloader (package gdl): the probe
\* (Download.GetInfoOrDownload), the chunk planner (Download.Init), the
\* orchestrator (Download.Start, Download.dl) and the chunk workers
\* (Download.DownloadChunk), driven through Gdl.Do.
EXTENDS Integers, Sequences, FiniteSets, TLC

\* ------------------------------------------------------------------ bounds

\* Largest total size a content-range header of the sampled probes announces.
MaxTotalSize == 6
\* Largest ChunkSize the caller sets on the session (0 = unset).
MaxChunkSizeSet == 3
\* Largest Concurrency the caller sets on the session (0 = unset).
MaxConcurrencySet == 2

\* runtime.NumCPU() of the sampled hosts.
NumCPUs == {1}
\* MinChunkSize / MaxChunkSize the caller sets on the session (0 = unset); they
\* are sampled for the sessions that leave ChunkSize unset, the only ones that
\* read them.
MinChunkSizes == {0, 1}
MaxChunkSizes == {0, 2}

\* ------------------------------------------------------------- error values

Nil == "nil"
RequestFailed == "RequestFailed"              \* "Response status fail: %d"
InvalidRangeHeader == "InvalidRangeHeader"    \* "Invalid content-range header in response"
RangeLengthMismatch == "RangeLengthMismatch"  \* "Range request returned invalid Content-Length"
Canceled == "Canceled"                        \* ctx.Err()
TransportError == "TransportError"            \* Client.Do's error
TransportCanceled == "TransportCanceled"      \* Client.Do's error wrapping ctx.Err()
CreateError == "CreateError"                  \* os.Create's error
CopyError == "CopyError"                      \* io.Copy / io.CopyN's error
DivideByZero == "DivideByZero"                \* runtime panic: integer divide by zero

\* ---------------------------------------------------------------------- state

VARIABLES
    ChunkSize, Concurrency, MinChunkSize, MaxChunkSize, \* the session's fields
    numCPU,        \* runtime.NumCPU()
    canceled,      \* d.ctx is done
    res,           \* the probe's response
    info,          \* d.info
    chunks,        \* d.chunks
    size,          \* d.size, the byte counter
    fileLen,       \* length of the destination file, -1 while it does not exist
    fileOpen,      \* Start's file handle is open
    pc,            \* position of Gdl.Do: "Init", "Start", "select", "done"
    initErr,       \* what Init returned
    startCalled,   \* Do called Start
    startErr,      \* what Start returned
    errs,          \* the result channel of Start, capacity ErrsCap
    max,           \* tokens in dl's semaphore channel, capacity d.Concurrency
    wg,            \* dl's WaitGroup counter
    dlPc,          \* position of dl: "none", "acquire", "spawn", "wait", "send", "done"
    dlI,           \* dl's loop index i
    wpc,           \* per chunk index, position of its worker
    wres,          \* per worker, res.ContentLength of its range response
    werr,          \* per worker, the error DownloadChunk returned
    written,       \* per worker, bytes written through its OffsetWriter
    counted,       \* per worker, bytes passed to d.Write
    requests,      \* per worker, range requests issued
    cancelEarly,   \* history: the scope was canceled before Do returned and
                   \* before any worker completed
    selPending,    \* history: the result channel when Start's select ran
    firstSent,     \* history: the first value sent on the result channel
    URL,           \* d.URL as url.Parse reads it: [ok, Path]
    Dir,           \* d.Dir
    Dest,          \* d.Dest
    unsafeName,    \* d.unsafeName, the content-disposition value of the probe
    path,          \* d.path, the cache of Path()
    probeFile,     \* history: the name the probe passed to os.Create
    startFile      \* history: the name Start passed to os.Create

vars == <<ChunkSize, Concurrency, MinChunkSize, MaxChunkSize, numCPU, canceled,
          res, info, chunks, size, fileLen, fileOpen, pc, initErr, startCalled,
          startErr, errs, max, wg, dlPc, dlI, wpc, wres, werr, written, counted,
          requests, cancelEarly, selPending, firstSent, URL, Dir, Dest,
          unsafeName, path, probeFile, startFile>>

sessionVars == <<ChunkSize, Concurrency, MinChunkSize, MaxChunkSize, numCPU,
                 URL, Dir, Dest>>
pathVars == <<unsafeName, path, probeFile, startFile>>
probeVars == <<res, info, chunks, initErr>>
workerVars == <<wpc, wres, werr, written, counted, requests>>
histVars == <<cancelEarly, selPending, firstSent>>

\* ------------------------------------------------- strings and their parsing

\* A header value is a sequence of characters; "b" stands for a character that
\* is neither a digit nor "/" (the "bytes 0-0" part of a content-range).
Digits == <<"0", "1", "2", "3", "4", "5", "6", "7", "8", "9">>

IsDigit(c) == \E k \in 1..10 : Digits[k] = c

DigitVal(c) == (CHOOSE k \in 1..10 : Digits[k] = c) - 1

\* strconv.FormatUint(n, 10), as the server writes the total of a content-range.
RECURSIVE FormatUint(_)
FormatUint(n) ==
    IF n < 10 THEN <<Digits[n + 1]>>
    ELSE Append(FormatUint(n \div 10), Digits[(n % 10) + 1])

\* strings.Split(s, "/"): the pieces between the separators.
RECURSIVE SplitFrom(_, _, _)
SplitFrom(s, k, cur) ==
    IF k > Len(s) THEN <<cur>>
    ELSE IF s[k] = "/" THEN <<cur>> \o SplitFrom(s, k + 1, <<>>)
    ELSE SplitFrom(s, k + 1, Append(cur, s[k]))

Split(s) == SplitFrom(s, 1, <<>>)

\* strconv.ParseUint(s, 10, 64): [ok, val]; the empty string and any character
\* that is not a digit are syntax errors.
RECURSIVE ParseDigits(_, _, _)
ParseDigits(s, k, acc) ==
    IF k > Len(s) THEN acc
    ELSE ParseDigits(s, k + 1, acc * 10 + DigitVal(s[k]))

ParseUint(s) ==
    IF Len(s) = 0 \/ \E k \in 1..Len(s) : ~IsDigit(s[k])
    THEN [ok |-> FALSE, val |-> 0]
    ELSE [ok |-> TRUE, val |-> ParseDigits(s, 1, 0)]

\* ------------------------------------------------------------ names and paths

\* Names, paths and content-disposition values are sequences of characters as
\* well. "a", "d", "o", "x" and the letters of "filename" are ordinary letters.

\* strings.Contains(s, sub)
Contains(s, sub) ==
    \E k \in 1..(Len(s) - Len(sub) + 1) :
        SubSeq(s, k, k + Len(sub) - 1) = sub

\* strings.TrimSpace / strings.TrimLeftFunc(v, unicode.IsSpace), for " ".
RECURSIVE TrimLeft(_)
TrimLeft(s) ==
    IF s # <<>> /\ Head(s) = " " THEN TrimLeft(Tail(s)) ELSE s

RECURSIVE TrimRight(_)
TrimRight(s) ==
    IF s # <<>> /\ s[Len(s)] = " " THEN TrimRight(SubSeq(s, 1, Len(s) - 1))
    ELSE s

TrimSpace(s) == TrimLeft(TrimRight(s))

\* mime: the tspecials of RFC 1521; a token character is any other character
\* that is not a space.
TSpecials == {"(", ")", "<", ">", "@", ",", ";", ":", "\\", "\"", "/", "[",
              "]", "?", "="}

IsTokenChar(c) == c \notin TSpecials /\ c # " "

\* mime.consumeToken: the longest prefix of token characters, and the rest.
RECURSIVE TokenEnd(_, _)
TokenEnd(v, k) ==
    IF k <= Len(v) /\ IsTokenChar(v[k]) THEN TokenEnd(v, k + 1) ELSE k

consumeToken(v) ==
    LET e == TokenEnd(v, 1)
    IN  [token |-> SubSeq(v, 1, e - 1), rest |-> SubSeq(v, e, Len(v))]

\* mime.checkMediaTypeDisposition: TRUE when s is "type" or "type/subtype".
checkMediaTypeDisposition(s) ==
    LET t == consumeToken(s)
    IN  IF t.token = <<>> THEN FALSE
        ELSE IF t.rest = <<>> THEN TRUE
        ELSE IF Head(t.rest) # "/" THEN FALSE
        ELSE LET u == consumeToken(Tail(t.rest))
             IN  u.token # <<>> /\ u.rest = <<>>

\* mime.consumeValue on a quoted string, from position k with the value read
\* so far: a backslash before a tspecial escapes it, any other backslash is
\* kept; without a closing quote nothing is consumed.
RECURSIVE QuotedFrom(_, _, _)
QuotedFrom(v, k, buf) ==
    IF k > Len(v) THEN [value |-> <<>>, rest |-> v]
    ELSE IF v[k] = "\"" THEN [value |-> buf, rest |-> SubSeq(v, k + 1, Len(v))]
    ELSE IF v[k] = "\\" /\ k + 1 <= Len(v) /\ v[k + 1] \in TSpecials
         THEN QuotedFrom(v, k + 2, Append(buf, v[k + 1]))
    ELSE QuotedFrom(v, k + 1, Append(buf, v[k]))

\* mime.consumeValue
consumeValue(v) ==
    IF v = <<>> THEN [value |-> <<>>, rest |-> v]
    ELSE IF Head(v) # "\""
         THEN LET t == consumeToken(v) IN [value |-> t.token, rest |-> t.rest]
    ELSE QuotedFrom(v, 2, <<>>)

\* mime.consumeMediaParam: "; key = value" at the head of v; an empty key says
\* that v does not start with a parameter.
consumeMediaParam(v) ==
    LET none == [key |-> <<>>, value |-> <<>>, rest |-> v]
        r0 == TrimLeft(v)
    IN  IF r0 = <<>> \/ Head(r0) # ";" THEN none
        ELSE LET p == consumeToken(TrimLeft(Tail(r0)))
                 r1 == TrimLeft(p.rest)
             IN  IF p.token = <<>> \/ r1 = <<>> \/ Head(r1) # "=" THEN none
                 ELSE LET r2 == TrimLeft(Tail(r1))
                          val == consumeValue(r2)
                      IN  IF val.value = <<>> /\ val.rest = r2 THEN none
                          ELSE [key |-> p.token, value |-> val.value,
                                rest |-> val.rest]

\* The parameter loop of mime.ParseMediaType: [ok, params], params a set of
\* <<key, value>> pairs. A duplicate key and anything that is not a parameter
\* (other than a trailing ";") are errors.
RECURSIVE ParseParams(_, _)
ParseParams(v, params) ==
    LET w == TrimLeft(v)
    IN  IF w = <<>> THEN [ok |-> TRUE, params |-> params]
        ELSE LET p == consumeMediaParam(w)
             IN  IF p.key = <<>>
                 THEN [ok |-> TrimSpace(p.rest) = <<";">>, params |-> params]
                 ELSE IF \E q \in params : q[1] = p.key
                      THEN [ok |-> FALSE, params |-> {}]
                 ELSE ParseParams(p.rest, params \cup {<<p.key, p.value>>})

\* The position of the first ";" of v, or Len(v) + 1.
RECURSIVE CutAt(_, _)
CutAt(v, k) ==
    IF k > Len(v) \/ v[k] = ";" THEN k ELSE CutAt(v, k + 1)

\* mime.ParseMediaType(v), without its first result: [ok, params].
ParseMediaType(v) ==
    LET c == CutAt(v, 1)
        base == SubSeq(v, 1, c - 1)
    IN  IF ~checkMediaTypeDisposition(TrimSpace(base))
        THEN [ok |-> FALSE, params |-> {}]
        ELSE ParseParams(SubSeq(v, c, Len(v)), {})

\* params[key] of a Go map: the empty string when the key is absent.
Param(params, key) ==
    IF \E q \in params : q[1] = key
    THEN (CHOOSE q \in params : q[1] = key)[2]
    ELSE <<>>

FilenameKey == <<"f", "i", "l", "e", "n", "a", "m", "e">>

\* getNameFromHeader without the test for "\\".
getNameFromHeaderNoBackslash(val) ==
    LET m == ParseMediaType(val)
        name == Param(m.params, FilenameKey)
    IN  IF ~m.ok \/ Contains(name, <<".", ".">>) \/ Contains(name, <<"/">>)
        THEN <<>>
        ELSE name

getNameFromHeader(val) ==
    LET m == ParseMediaType(val)
        name == Param(m.params, FilenameKey)
    IN  IF ~m.ok \/ Contains(name, <<".", ".">>) \/ Contains(name, <<"/">>)
           \/ Contains(name, <<"\\">>)
        THEN <<>>
        ELSE name

\* The last element of a sequence of pieces, and the pieces joined by "/".
RECURSIVE JoinPieces(_)
JoinPieces(ps) ==
    IF ps = <<>> THEN <<>>
    ELSE IF Len(ps) = 1 THEN ps[1]
    ELSE ps[1] \o <<"/">> \o JoinPieces(Tail(ps))

\* filepath.Clean's walk over the elements of a path: empty elements and "."
\* are dropped, ".." removes the element before it, is dropped at the root and
\* kept at the start of a relative path.
RECURSIVE CleanPieces(_, _, _)
CleanPieces(ps, out, rooted) ==
    IF ps = <<>> THEN out
    ELSE LET p == Head(ps)
         IN  IF p = <<>> \/ p = <<".">>
             THEN CleanPieces(Tail(ps), out, rooted)
             ELSE IF p = <<".", ".">>
                  THEN IF out # <<>> /\ out[Len(out)] # <<".", ".">>
                       THEN CleanPieces(Tail(ps), SubSeq(out, 1, Len(out) - 1),
                                        rooted)
                       ELSE IF rooted THEN CleanPieces(Tail(ps), out, rooted)
                       ELSE CleanPieces(Tail(ps), Append(out, p), rooted)
             ELSE CleanPieces(Tail(ps), Append(out, p), rooted)

\* filepath.Clean
Clean(p) ==
    IF p = <<>> THEN <<".">>
    ELSE LET rooted == Head(p) = "/"
             body == JoinPieces(CleanPieces(Split(p), <<>>, rooted))
         IN  IF rooted THEN <<"/">> \o body
             ELSE IF body = <<>> THEN <<".">>
             ELSE body

\* filepath.Join(dir, name)
Join(dir, name) ==
    IF dir = <<>> /\ name = <<>> THEN <<>>
    ELSE IF dir = <<>> THEN Clean(name)
    ELSE IF name = <<>> THEN Clean(dir)
    ELSE Clean(dir \o <<"/">> \o name)

\* filepath.Ext: from the last "." of the last element.
RECURSIVE ExtFrom(_, _)
ExtFrom(p, k) ==
    IF k < 1 \/ p[k] = "/" THEN <<>>
    ELSE IF p[k] = "." THEN SubSeq(p, k, Len(p))
    ELSE ExtFrom(p, k - 1)

Ext(p) == ExtFrom(p, Len(p))

\* filepath.Base: the last element, trailing separators removed.
RECURSIVE StripSlashes(_)
StripSlashes(p) ==
    IF p # <<>> /\ p[Len(p)] = "/" THEN StripSlashes(SubSeq(p, 1, Len(p) - 1))
    ELSE p

Base(p) ==
    IF p = <<>> THEN <<".">>
    ELSE LET s == StripSlashes(p)
         IN  IF s = <<>> THEN <<"/">>
             ELSE LET ps == Split(s) IN ps[Len(ps)]

\* DefaultFileName = "gdl.output"
DefaultFileName == <<"g", "d", "l", ".", "o", "u", "t", "p", "u", "t">>

\* GetFilename(URL); u is what url.Parse(URL) gives: [ok, Path].
GetFilename(u) ==
    IF u.ok /\ Ext(u.Path) # <<>> THEN Base(u.Path) ELSE DefaultFileName

\* The name Path() picks on its first resolution.
PathName(d) ==
    IF d.Dest # <<>> THEN d.Dest
    ELSE IF d.unsafeName # <<>> /\ getNameFromHeader(d.unsafeName) # <<>>
         THEN getNameFromHeader(d.unsafeName)
    ELSE GetFilename(d.URL)

\* Path() resolving on every call.
PathUncached(d) == Join(d.Dir, PathName(d))

\* Download.Path(): its result, which is also d.path after the call; d holds
\* the fields URL, Dir, Dest, unsafeName and path of the session.
Path(d) == IF d.path = <<>> THEN Join(d.Dir, PathName(d)) ELSE d.path

\* ------------------------------------------------------------ default policy

\* getDefaultChunkSize: the size above which the per-task share is halved.
HalveAbove == 102400000
\* getDefaultChunkSize: the default lower bound when min is unset.
DefaultMin == 2097152

\* getDefaultConcurrency() on a host of n CPUs.
getDefaultConcurrency(n) ==
    LET c0 == n * 3
        c1 == IF c0 > 20 THEN 20 ELSE c0
    IN  IF c1 <= 2 THEN 4 ELSE c1

\* getDefaultChunkSize with the minimum applied after the maximum.
getDefaultChunkSizeMinLast(totalSize, min_, max_, concurrency) ==
    LET cs0 == totalSize \div concurrency
        cs1 == IF cs0 >= HalveAbove THEN cs0 \div 2 ELSE cs0
        min1 == IF min_ = 0
                THEN (IF DefaultMin >= totalSize THEN totalSize \div 2 ELSE DefaultMin)
                ELSE min_
        cs2 == IF max_ > 0 /\ cs1 > max_ THEN max_ ELSE cs1
        cs3 == IF cs2 < min1 THEN min1 ELSE cs2
    IN  IF cs3 >= totalSize THEN totalSize \div 2 ELSE cs3

\* getDefaultChunkSize(totalSize, min, max, concurrency); concurrency >= 1.
\* (The parameters min and max are min_ and max_ here.)
getDefaultChunkSize(totalSize, min_, max_, concurrency) ==
    LET cs0 == totalSize \div concurrency
        cs1 == IF cs0 >= HalveAbove THEN cs0 \div 2 ELSE cs0
        min1 == IF min_ = 0
                THEN (IF DefaultMin >= totalSize THEN totalSize \div 2 ELSE DefaultMin)
                ELSE min_
        cs2 == IF cs1 < min1 THEN min1 ELSE cs1
        cs3 == IF max_ > 0 /\ cs2 > max_ THEN max_ ELSE cs2
    IN  IF cs3 >= totalSize THEN totalSize \div 2 ELSE cs3

\* ------------------------------------------------------------- chunk planner

\* The loop of Download.Init over i, with chunksLen = totalSize / chunkSize;
\* acc is d.chunks so far.
RECURSIVE PlanLoop(_, _, _, _, _)
PlanLoop(totalSize, chunkSize, chunksLen, i, acc) ==
    IF i >= chunksLen THEN acc
    ELSE LET start == (chunkSize * i) + i
             end == start + chunkSize
         IN  IF end >= totalSize \/ i = chunksLen - 1
             THEN Append(acc, [Start |-> start, End |-> totalSize - 1])
             ELSE PlanLoop(totalSize, chunkSize, chunksLen, i + 1,
                           Append(acc, [Start |-> start, End |-> end]))

\* d.chunks as Download.Init plans it; chunkSize > 0.
PlanChunks(totalSize, chunkSize) ==
    PlanLoop(totalSize, chunkSize, totalSize \div chunkSize, 0, <<>>)

\* c.End - c.Start + 1 in DownloadChunk. Every planned chunk has
\* Start <= End + 1, so the uint64 arithmetic gives this value exactly.
RangeLen(c) == c.End - c.Start + 1

\* ----------------------------------------------------------- probe responses

\* content-range values of the sampled servers: none, "bytes 0-0/<total>" for
\* every total up to MaxTotalSize, and values that are not of that form.
ContentRanges ==
    {<<>>}
    \cup {<<"b", "/">> \o FormatUint(n) : n \in 0..MaxTotalSize}
    \cup {<<"b">>, <<"b", "/">>, <<"b", "/", "b">>, <<"b", "/", "2", "/", "2">>,
          <<"/", "2">>}

\* res.StatusCode of the sampled servers; the code reads it only in the
\* comparison with 300.
StatusCodes == {200, 300, 404}

\* What d.Client.Do returns for the probe request. fails: Do returned an error;
\* ContentLength: res.ContentLength (-1 = unknown); body: the bytes res.Body
\* yields; bodyErr: the body ends with an error instead of EOF. A body of known
\* length yields exactly that length, or fewer bytes and an error.
NoResponse == [fails |-> TRUE, StatusCode |-> 0, contentRange |-> <<>>,
               ContentLength |-> 0, body |-> 0, bodyErr |-> FALSE]

ProbeResponses ==
    {NoResponse}
    \cup {r \in [fails : {FALSE}, StatusCode : StatusCodes,
                 contentRange : ContentRanges, ContentLength : -1..2,
                 body : 0..2, bodyErr : BOOLEAN] :
            r.ContentLength >= 0 =>
                 IF r.bodyErr THEN r.body < r.ContentLength
                              ELSE r.body = r.ContentLength}

\* Variant of StatusFails: only the 5xx class fails the probe.
StatusFailsServerOnly(r) == r.StatusCode >= 500

\* res.StatusCode >= 300 in GetInfoOrDownload.
StatusFails(r) == r.StatusCode >= 300

\* Variant of ParsesRange: the header is parsed even when it is absent.
ParsesRangeAnyHeader(r) == r.ContentLength = 1

\* Variant of ParsesRange: the header is parsed whatever the content length.
ParsesRangeAnyLength(r) == r.contentRange # <<>>

\* cr != "" && res.ContentLength == 1 in GetInfoOrDownload.
ParsesRange(r) == r.contentRange # <<>> /\ r.ContentLength = 1

\* Download.GetInfoOrDownload on response r, with os.Create failing or not:
\* the Info and error it returns, whether it created the destination file, and
\* the bytes it copied to the file and through d.Write.
GetInfoOrDownload(r, createFails) ==
    LET none == [Size |-> 0, Rangeable |-> FALSE]
        out(i, e, created, n) ==
            [info |-> i, err |-> e, created |-> created, copied |-> n]
        l == Split(r.contentRange)
        length == IF Len(l) = 2 THEN ParseUint(l[2]) ELSE [ok |-> FALSE, val |-> 0]
    IN  IF r.fails
        THEN out(none, IF canceled THEN TransportCanceled ELSE TransportError, FALSE, 0)
        ELSE IF StatusFails(r) THEN out(none, RequestFailed, FALSE, 0)
        ELSE IF createFails THEN out(none, CreateError, FALSE, 0)
        ELSE IF r.bodyErr THEN out(none, CopyError, TRUE, r.body)
        ELSE IF ParsesRange(r)
             THEN IF length.ok
                  THEN out([Size |-> length.val, Rangeable |-> TRUE], Nil, TRUE, r.body)
                  ELSE out(none, InvalidRangeHeader, TRUE, r.body)
        ELSE out(none, Nil, TRUE, r.body)

\* ------------------------------------------------------------ initial state

\* errs := make(chan error, 1) in Start.
ErrsCap == 1

None == "none"
Workers == 1..Len(chunks)

\* No call of os.Create yet.
NoFile == <<"?">>

\* The URL of the sessions of Spec, "http://host/a.a", and the
\* content-disposition value of their servers, which send none.
SampleURL == [ok |-> TRUE, Path |-> <<"/", "a", ".", "a">>]

NoDisposition == <<>>

\* The fields of the session that Path() reads, with the given unsafeName.
PathFields(unsafe) ==
    [URL |-> URL, Dir |-> Dir, Dest |-> Dest, unsafeName |-> unsafe,
     path |-> path]

\* A session as the caller constructs it (Fetch, Gdl.Download or a Download
\* literal passed to Gdl.Do), before Do runs.
Init ==
    /\ ChunkSize \in 0..MaxChunkSizeSet
    /\ Concurrency \in 0..MaxConcurrencySet
    /\ MinChunkSize \in IF ChunkSize = 0 THEN MinChunkSizes ELSE {0}
    /\ MaxChunkSize \in IF ChunkSize = 0 THEN MaxChunkSizes ELSE {0}
    /\ numCPU \in NumCPUs
    /\ canceled = FALSE
    /\ res = NoResponse
    /\ info = [Size |-> 0, Rangeable |-> FALSE]
    /\ chunks = <<>>
    /\ size = 0
    /\ fileLen = -1
    /\ fileOpen = FALSE
    /\ pc = "Init"
    /\ initErr = None
    /\ startCalled = FALSE
    /\ startErr = None
    /\ errs = <<>>
    /\ max = 0
    /\ wg = 0
    /\ dlPc = "none"
    /\ dlI = 0
    /\ wpc = <<>>
    /\ wres = <<>>
    /\ werr = <<>>
    /\ written = <<>>
    /\ counted = <<>>
    /\ requests = <<>>
    /\ cancelEarly = FALSE
    /\ selPending = <<>>
    /\ firstSent = None
    /\ URL = SampleURL
    /\ Dir = <<>>
    /\ Dest = <<>>
    /\ unsafeName = <<>>
    /\ path = <<>>
    /\ probeFile = NoFile
    /\ startFile = NoFile

\* --------------------------------------------------------------- Download.Init

\* Download.Init, called by Gdl.Do: the probe, then for a rangeable resource
\* the defaults and the chunk plan. A canceled scope fails the probe request.
DownloadInit ==
    /\ pc = "Init"
    /\ \E r \in ProbeResponses, createFails \in BOOLEAN :
        LET p == GetInfoOrDownload(r, createFails)
            conc == IF Concurrency = 0 THEN getDefaultConcurrency(numCPU)
                    ELSE Concurrency
            cs == IF ChunkSize = 0
                  THEN getDefaultChunkSize(p.info.Size, MinChunkSize, MaxChunkSize, conc)
                  ELSE ChunkSize
            planned == p.err = Nil /\ p.info.Rangeable
            plan == IF planned /\ cs > 0 THEN PlanChunks(p.info.Size, cs) ELSE <<>>
        IN  /\ canceled => r.fails
            /\ (r.fails \/ StatusFails(r)) => ~createFails
            /\ res' = r
            /\ info' = p.info
            /\ size' = size + p.copied
            /\ fileLen' = IF p.created THEN p.copied ELSE fileLen
            /\ Concurrency' = IF planned THEN conc ELSE Concurrency
            /\ ChunkSize' = IF planned THEN cs ELSE ChunkSize
            /\ chunks' = plan
            /\ initErr' = IF planned /\ cs = 0 THEN DivideByZero ELSE p.err
            /\ pc' = IF initErr' = Nil THEN "Start" ELSE "done"
            /\ wpc' = [i \in 1..Len(plan) |-> None]
            /\ wres' = [i \in 1..Len(plan) |-> 0]
            /\ werr' = [i \in 1..Len(plan) |-> None]
            /\ written' = [i \in 1..Len(plan) |-> 0]
            /\ counted' = [i \in 1..Len(plan) |-> 0]
            /\ requests' = [i \in 1..Len(plan) |-> 0]
            /\ IF r.fails \/ StatusFails(r)
               THEN UNCHANGED <<unsafeName, path, probeFile>>
               ELSE /\ unsafeName' = NoDisposition
                    /\ path' = Path(PathFields(unsafeName'))
                    /\ probeFile' = path'
    /\ UNCHANGED <<MinChunkSize, MaxChunkSize, numCPU, canceled, fileOpen,
                   startCalled, startErr, errs, max, wg, dlPc, dlI, histVars,
                   URL, Dir, Dest, startFile>>

\* -------------------------------------------------------------- Download.Start

\* Start up to the select: the non-rangeable case returns at once; otherwise
\* the file is created and sized, the result channel made and dl started.
StartBegin ==
    /\ pc = "Start"
    /\ startCalled' = TRUE
    /\ IF ~info.Rangeable
       THEN /\ startErr' = IF canceled THEN Canceled ELSE Nil
            /\ pc' = "done"
            /\ UNCHANGED <<fileLen, fileOpen, errs, max, wg, dlPc, dlI, path,
                           startFile>>
       ELSE \E createFails \in BOOLEAN :
            /\ path' = Path(PathFields(unsafeName))
            /\ startFile' = path'
            /\ IF createFails
               THEN /\ startErr' = CreateError
                    /\ pc' = "done"
                    /\ UNCHANGED <<fileLen, fileOpen, errs, max, wg, dlPc, dlI>>
               ELSE /\ fileLen' = info.Size
                    /\ fileOpen' = TRUE
                    /\ errs' = <<>>
                    /\ max' = 0
                    /\ wg' = 0
                    /\ dlI' = 0
                    /\ dlPc' = IF Len(chunks) = 0 THEN "wait" ELSE "acquire"
                    /\ pc' = "select"
                    /\ UNCHANGED startErr
    /\ UNCHANGED <<sessionVars, canceled, probeVars, size, workerVars, histVars,
                   unsafeName, probeFile>>

\* The receive case of Start's select can proceed.
SelectCanReceive == errs # <<>>

\* The ctx.Done() case of Start's select can proceed.
SelectCanCancel == canceled

\* Variant of SelectCancelErr: the ctx.Done() case leaves err unset.
SelectCancelErrUnset == Nil

\* What Start returns from the ctx.Done() case: err = d.ctx.Err().
SelectCancelErr == Canceled

\* Start's select, then its return (the deferred file.Close() included).
\* pc = "select" is Start at its select statement, about to run it or blocked
\* in it; when both cases can proceed either one may be taken.
StartSelect ==
    /\ pc = "select"
    /\ \/ /\ SelectCanReceive
          /\ startErr' = Head(errs)
          /\ errs' = Tail(errs)
       \/ /\ SelectCanCancel
          /\ startErr' = SelectCancelErr
          /\ UNCHANGED errs
    /\ selPending' = errs
    /\ fileOpen' = FALSE
    /\ pc' = "done"
    /\ UNCHANGED <<sessionVars, pathVars, canceled, probeVars, size, fileLen, startCalled,
                   max, wg, dlPc, dlI, workerVars, cancelEarly, firstSent>>

\* ----------------------------------------------------------------- Download.dl

\* Variant of SemFree: the semaphore channel holds one token too many.
SemFreeOffByOne == max <= Concurrency

\* max <- 1 can proceed: the semaphore channel has a free slot.
SemFree == max < Concurrency

\* A send on the result channel can proceed: its buffer has room. Start is
\* the only receiver and receives once, so an unbuffered hand-off never
\* happens with a full buffer.
ErrsFree == Len(errs) < ErrsCap

\* The first value ever sent on the result channel.
NoteSent(v) == firstSent' = IF firstSent = None THEN v ELSE firstSent

\* dl: max <- 1.
DlAcquire ==
    /\ dlPc = "acquire"
    /\ SemFree
    /\ max' = max + 1
    /\ dlPc' = "spawn"
    /\ UNCHANGED <<sessionVars, pathVars, canceled, probeVars, size, fileLen, fileOpen, pc,
                   startCalled, startErr, errs, wg, dlI, workerVars, histVars>>

\* dl: wg.Add(1); go func(i) {...}(i); i++.
DlSpawn ==
    /\ dlPc = "spawn"
    /\ wg' = wg + 1
    /\ wpc' = [wpc EXCEPT ![dlI + 1] = "request"]
    /\ dlI' = dlI + 1
    /\ dlPc' = IF dlI + 1 < Len(chunks) THEN "acquire" ELSE "wait"
    /\ UNCHANGED <<sessionVars, pathVars, canceled, probeVars, size, fileLen, fileOpen, pc,
                   startCalled, startErr, errs, max, wres, werr, written, counted,
                   requests, histVars>>

\* Variant of WgZero: dl does not wait for the workers.
WgZeroEarly == TRUE

\* wg.Wait() can return: every launched worker has called wg.Done().
WgZero == wg = 0

\* dl: wg.Wait() returns.
DlWait ==
    /\ dlPc = "wait"
    /\ WgZero
    /\ dlPc' = "send"
    /\ UNCHANGED <<sessionVars, pathVars, canceled, probeVars, size, fileLen, fileOpen, pc,
                   startCalled, startErr, errs, max, wg, dlI, workerVars, histVars>>

\* dl: errC <- nil.
DlSend ==
    /\ dlPc = "send"
    /\ ErrsFree
    /\ errs' = Append(errs, Nil)
    /\ NoteSent(Nil)
    /\ dlPc' = "done"
    /\ UNCHANGED <<sessionVars, pathVars, canceled, probeVars, size, fileLen, fileOpen, pc,
                   startCalled, startErr, max, wg, dlI, workerVars, cancelEarly,
                   selPending>>

\* ------------------------------------------------- workers, Download.DownloadChunk

\* res.ContentLength of the sampled servers' answers to a range request.
ResponseLengths(c) == {RangeLen(c), RangeLen(c) + 1}

\* DownloadChunk: NewRequest, the Range header and d.Client.Do. A canceled
\* scope fails the request.
WRequest(i) ==
    /\ wpc[i] = "request"
    /\ requests' = [requests EXCEPT ![i] = @ + 1]
    /\ \/ /\ werr' = [werr EXCEPT ![i] =
                        IF canceled THEN TransportCanceled ELSE TransportError]
          /\ wpc' = [wpc EXCEPT ![i] = "send"]
          /\ UNCHANGED wres
       \/ /\ ~canceled
          /\ \E n \in ResponseLengths(chunks[i]) :
                wres' = [wres EXCEPT ![i] = n]
          /\ wpc' = [wpc EXCEPT ![i] = "check"]
          /\ UNCHANGED werr
    /\ UNCHANGED <<sessionVars, pathVars, canceled, probeVars, size, fileLen, fileOpen, pc,
                   startCalled, startErr, errs, max, wg, dlPc, dlI, written,
                   counted, histVars>>

\* res.ContentLength == int64(c.End-c.Start+1) in DownloadChunk.
LengthMatches(i) == wres[i] = RangeLen(chunks[i])

\* Variant of AfterMismatch: the worker issues the range request again.
AfterMismatchRetry == "request"

\* Where the worker goes when DownloadChunk returns the mismatch error: to
\* its error path, errC <- err.
AfterMismatch == "send"

\* DownloadChunk: the check of the response's length against the range.
WCheck(i) ==
    /\ wpc[i] = "check"
    /\ IF LengthMatches(i)
       THEN /\ wpc' = [wpc EXCEPT ![i] = "copy"]
            /\ UNCHANGED werr
       ELSE /\ wpc' = [wpc EXCEPT ![i] = AfterMismatch]
            /\ werr' = [werr EXCEPT ![i] = RangeLengthMismatch]
    /\ UNCHANGED <<sessionVars, pathVars, canceled, probeVars, size, fileLen, fileOpen, pc,
                   startCalled, startErr, errs, max, wg, dlPc, dlI, wres, written,
                   counted, requests, histVars>>

\* The ways io.CopyN(dest, io.TeeReader(res.Body, d), n) can end: <<c, w>> with
\* c bytes read from the body and passed to d.Write, w of them written through
\* the OffsetWriter. It returns nil iff w = n; a body read error ends it with
\* w = c < n, a WriteAt error (always, once Start closed the file) with w < c.
CopyOutcomes(n) ==
    {o \in (0..n) \X (0..n) : o[2] <= o[1] /\ (~fileOpen /\ o[1] > 0 => o[2] = 0)}

\* DownloadChunk: the copy of the body, and its return.
WCopy(i) ==
    /\ wpc[i] = "copy"
    /\ \E o \in CopyOutcomes(wres[i]) :
        /\ size' = size + o[1]
        /\ counted' = [counted EXCEPT ![i] = @ + o[1]]
        /\ written' = [written EXCEPT ![i] = @ + o[2]]
        /\ IF o[2] = wres[i]
           THEN /\ wpc' = [wpc EXCEPT ![i] = "release"]
                /\ UNCHANGED werr
           ELSE /\ wpc' = [wpc EXCEPT ![i] = "send"]
                /\ werr' = [werr EXCEPT ![i] = CopyError]
    /\ UNCHANGED <<sessionVars, pathVars, canceled, probeVars, fileLen, fileOpen, pc,
                   startCalled, startErr, errs, max, wg, dlPc, dlI, wres, requests,
                   histVars>>

\* The worker's error path: errC <- err; return (the deferred wg.Done()).
WSend(i) ==
    /\ wpc[i] = "send"
    /\ ErrsFree
    /\ errs' = Append(errs, werr[i])
    /\ NoteSent(werr[i])
    /\ wg' = wg - 1
    /\ wpc' = [wpc EXCEPT ![i] = "done"]
    /\ UNCHANGED <<sessionVars, pathVars, canceled, probeVars, size, fileLen, fileOpen, pc,
                   startCalled, startErr, max, dlPc, dlI, wres, werr, written,
                   counted, requests, cancelEarly, selPending>>

\* The worker's success path: <-max; return (the deferred wg.Done()).
WRelease(i) ==
    /\ wpc[i] = "release"
    /\ max > 0
    /\ max' = max - 1
    /\ wg' = wg - 1
    /\ wpc' = [wpc EXCEPT ![i] = "done"]
    /\ UNCHANGED <<sessionVars, pathVars, canceled, probeVars, size, fileLen, fileOpen, pc,
                   startCalled, startErr, errs, dlPc, dlI, wres, werr, written,
                   counted, requests, histVars>>

\* ------------------------------------------------------------------ the scope

\* The worker's DownloadChunk call has returned.
Completed(i) == wpc[i] \in {"send", "release", "done"}

\* The caller cancels the session's context.
Cancel ==
    /\ ~canceled
    /\ canceled' = TRUE
    /\ cancelEarly' = (pc # "done" /\ \A i \in Workers : ~Completed(i))
    /\ UNCHANGED <<sessionVars, pathVars, probeVars, size, fileLen, fileOpen, pc, startCalled,
                   startErr, errs, max, wg, dlPc, dlI, workerVars, selPending,
                   firstSent>>

\* What Gdl.Do returns once pc = "done".
DoErr == IF initErr # Nil THEN initErr ELSE startErr

\* -------------------------------------------------------------- specification

WorkerStep(i) == WRequest(i) \/ WCheck(i) \/ WCopy(i) \/ WSend(i) \/ WRelease(i)

DlStep == DlAcquire \/ DlSpawn \/ DlWait \/ DlSend

\* A step of one of the tasks Start leaves behind: dl or a worker.
TaskStep == DlStep \/ \E i \in Workers : WorkerStep(i)

Next ==
    \/ DownloadInit
    \/ StartBegin
    \/ StartSelect
    \/ DlAcquire
    \/ DlSpawn
    \/ DlWait
    \/ DlSend
    \/ \E i \in Workers : WRequest(i)
    \/ \E i \in Workers : WCheck(i)
    \/ \E i \in Workers : WCopy(i)
    \/ \E i \in Workers : WSend(i)
    \/ \E i \in Workers : WRelease(i)
    \/ Cancel

Spec == Init /\ [][Next]_vars

\* --------------------------------------------------------------------- claims

\* Init returned nil on a rangeable resource: the session is planned.
Planned == pc # "Init" /\ initErr = Nil /\ info.Rangeable

\* Start has returned on a planned session.
StartReturned == Planned /\ startCalled /\ pc = "done"

\* The chunk list cs exactly tiles [0, total) with non-empty chunks.
Tiles(cs, total) ==
    /\ Len(cs) >= 1
    /\ cs[1].Start = 0
    /\ \A k \in 1..(Len(cs) - 1) : cs[k + 1].Start = cs[k].End + 1
    /\ cs[Len(cs)].End = total - 1
    /\ \A k \in 1..Len(cs) : cs[k].Start <= cs[k].End

\* C1: for every totalSize and chunkSize with 0 < chunkSize <= totalSize, the
\* chunk list Init plans exactly tiles [0, totalSize): first start 0, each
\* next start = previous end + 1, last end = totalSize - 1, every chunk
\* non-empty.
C1_PlanTiles ==
    (Planned /\ 0 < ChunkSize /\ ChunkSize <= info.Size) => Tiles(chunks, info.Size)

\* dl and every worker it is to launch have terminated.
AllTasksDone == dlPc = "done" /\ \A i \in Workers : wpc[i] = "done"

\* C2: in every run of Start on a rangeable session every worker and dl
\* eventually terminate: once Start has returned, a state in which no task can
\* take a step any more is one in which all of them have terminated.
C2_TasksTerminate ==
    (StartReturned /\ dlPc # "none" /\ ~ENABLED TaskStep) => AllTasksDone

\* The workers in flight: launched, their DownloadChunk call not yet returned.
InFlight == {i \in Workers : wpc[i] \in {"request", "check", "copy"}}

\* C3: at every moment the number of workers in flight is at most the
\* session's concurrency.
C3_BoundedInFlight == Cardinality(InFlight) <= Concurrency

\* C3 witness: the pool is full (two workers in flight under Concurrency 2)
\* and dl waits for a slot to launch a further chunk.
C3_Witness ==
    /\ Concurrency = 2
    /\ Cardinality(InFlight) = 2
    /\ dlPc = "acquire"
    /\ max = Concurrency

\* C4: when Init and Start both succeed on a rangeable resource, the byte
\* counter equals totalSize exactly. Stated for the sessions whose plan tiles
\* the resource, where every chunk's bytes add up to totalSize.
C4_CounterIsTotal ==
    (StartReturned /\ startErr = Nil /\ Tiles(chunks, info.Size)) => size = info.Size

\* C5: for a rangeable session Start returns nil only if every planned chunk
\* had a worker launched and every worker finished without error; if a worker
\* produced an error Start never returns nil, and a result Start takes from
\* the result channel is the first one sent on it.
C5_NilOnlyAfterAll ==
    StartReturned =>
        /\ startErr = Nil =>
              /\ dlI = Len(chunks)
              /\ \A i \in Workers : wpc[i] = "done" /\ werr[i] = None
        /\ (\E i \in Workers : werr[i] # None) => startErr # Nil
        /\ startErr \notin {Canceled, CreateError} => startErr = firstSent

\* C5 witness: Start returned nil on a plan of at least two chunks.
C5_Witness == StartReturned /\ startErr = Nil /\ Len(chunks) >= 2

\* C6, as claimed: if the scope is canceled before any chunk worker completes,
\* Start returns the Canceled error. Stated for the sessions whose plan tiles
\* the resource and whose file Start could create, and counting a worker's
\* request error that wraps ctx.Err() as the Canceled error too.
C6_EarlyCancelReturnsCanceled ==
    (StartReturned /\ cancelEarly /\ startErr # CreateError
        /\ Tiles(chunks, info.Size)) =>
        startErr \in {Canceled, TransportCanceled}

\* C6, amended: if the scope is canceled before any chunk worker completes,
\* Start, once it has created the file, returns Canceled or a result that was
\* already on the result channel when its select ran; and the select can
\* return as soon as the scope is canceled, whatever the workers' positions.
C6_EarlyCancel ==
    /\ (StartReturned /\ cancelEarly /\ startErr # CreateError) =>
          \/ startErr = Canceled
          \/ selPending # <<>> /\ startErr = Head(selPending)
    /\ (pc = "select" /\ canceled) => ENABLED (StartSelect /\ startErr' = Canceled)

\* C6 witness: after an early cancel Start has returned Canceled while a
\* worker is still in flight and dl has not finished.
C6_Witness ==
    /\ StartReturned
    /\ cancelEarly
    /\ startErr = Canceled
    /\ InFlight # {}
    /\ dlPc # "done"

\* The probe got a response of status < 300 without a content-range header,
\* the file could be created and the body was read to its end.
NoRangeProbe ==
    /\ pc # "Init"
    /\ ~res.fails
    /\ res.StatusCode < 300
    /\ res.contentRange = <<>>
    /\ ~res.bodyErr
    /\ initErr # CreateError

\* C7 (state part): without a content-range header Init succeeds with
\* rangeable=false and no chunks; no dl and no worker ever runs, and the file
\* and the byte counter stay what the probe made them.
C7_NoRangeState ==
    NoRangeProbe =>
        /\ initErr = Nil
        /\ ~info.Rangeable
        /\ chunks = <<>>
        /\ dlPc = "none"
        /\ fileLen = res.body
        /\ size = res.body
        /\ pc = "done" => startCalled /\ startErr \in {Nil, Canceled}

\* C7 (step part): on such a session Start returns in one step, nil unless the
\* scope is already canceled and then the cancellation error, and changes
\* neither the file nor the byte counter.
C7_NoRangeStep ==
    (NoRangeProbe /\ pc = "Start" /\ pc' # "Start") =>
        /\ pc' = "done"
        /\ startErr' = IF canceled THEN Canceled ELSE Nil
        /\ UNCHANGED <<fileLen, fileOpen, size, errs, dlPc, workerVars>>

\* C7: when the probe response has no content-range header, Init succeeds with
\* rangeable=false and plans no chunks, and Start only checks cancellation.
C7_NoRange == []C7_NoRangeState /\ [][C7_NoRangeStep]_vars

\* C7 witness: a two-byte body without content-range; Start found the scope
\* canceled.
C7_Witness ==
    /\ NoRangeProbe
    /\ res.body = 2
    /\ pc = "done"
    /\ startErr = Canceled

\* C8: when the probe's status is >= 300 Init fails with RequestFailed before
\* the file is created and before any byte is counted, and Do returns that
\* error without calling Start.
C8_StatusFails ==
    (pc # "Init" /\ ~res.fails /\ res.StatusCode >= 300) =>
        /\ initErr = RequestFailed
        /\ fileLen = -1
        /\ size = 0
        /\ pc = "done"
        /\ ~startCalled
        /\ startErr = None
        /\ dlPc = "none"
        /\ DoErr = RequestFailed

\* C8 witness: a 404 response that carries a body.
C8_Witness ==
    /\ pc = "done"
    /\ ~res.fails
    /\ res.StatusCode = 404
    /\ res.body = 2
    /\ DoErr = RequestFailed

\* C9: a worker whose response length differs from end - start + 1 fails with
\* RangeLengthMismatch before copying any byte, is not retried, and when no
\* cancellation and no other failure occurs Start returns that error.
C9_Mismatch ==
    /\ \A i \in Workers :
          /\ requests[i] <= 1
          /\ (wpc[i] \in {"send", "done"} /\ wres[i] # RangeLen(chunks[i])
                /\ werr[i] \notin {TransportError, TransportCanceled}) =>
                /\ werr[i] = RangeLengthMismatch
                /\ written[i] = 0
                /\ counted[i] = 0
    /\ ( /\ StartReturned
         /\ ~canceled
         /\ startErr # CreateError
         /\ \E i \in Workers : werr[i] = RangeLengthMismatch
         /\ \A i \in Workers : werr[i] \in {None, RangeLengthMismatch} )
       => startErr = RangeLengthMismatch

\* C9 witness: of two chunks one got a response of the wrong length, nothing
\* else failed, and Start returned.
C9_Witness ==
    /\ StartReturned
    /\ ~canceled
    /\ Len(chunks) >= 2
    /\ \E i \in Workers :
          /\ werr[i] = RangeLengthMismatch
          /\ wres[i] = RangeLen(chunks[i]) + 1
          /\ \A j \in Workers \ {i} : werr[j] = None
    /\ startErr = RangeLengthMismatch

\* The header value has the form "bytes X-Y/TOTAL": the range part, one "/",
\* and a decimal total.
IsBytesRange(cr) ==
    /\ Len(cr) >= 3
    /\ cr[1] = "b"
    /\ cr[2] = "/"
    /\ \A k \in 3..Len(cr) : IsDigit(cr[k])

\* The header value has a total the probe can read: exactly one "/", followed
\* by a decimal number.
HasTotal(cr) ==
    \E k \in 1..(Len(cr) - 1) :
        /\ cr[k] = "/"
        /\ \A j \in 1..Len(cr) : j < k => cr[j] # "/"
        /\ \A j \in (k + 1)..Len(cr) : IsDigit(cr[j])

\* The probe got a response of status < 300 with a content-range header, the
\* file could be created and the body was read to its end.
RangeProbe ==
    /\ pc # "Init"
    /\ ~res.fails
    /\ res.StatusCode < 300
    /\ res.contentRange # <<>>
    /\ ~res.bodyErr
    /\ initErr # CreateError

\* C10, as claimed: whenever the probe response carries a content-range header
\* that is malformed or unparsable the probe fails with InvalidRangeHeader, for
\* every body length.
C10_MalformedAlwaysFails ==
    (RangeProbe /\ ~HasTotal(res.contentRange)) => initErr = InvalidRangeHeader

\* C10, amended: a content-range header without a readable total (not exactly
\* one "/" followed by a decimal number) fails the probe with
\* InvalidRangeHeader when the response's content length is exactly 1; with
\* any other content length the probe returns rangeable=false and no error.
C10_MalformedFails ==
    (RangeProbe /\ ~HasTotal(res.contentRange)) =>
        IF res.ContentLength = 1
        THEN initErr = InvalidRangeHeader
        ELSE initErr = Nil /\ ~info.Rangeable

\* C10 witness: "bytes 0-0/<not a number>" on a one-byte response fails the
\* probe.
C10_Witness ==
    /\ RangeProbe
    /\ res.contentRange = <<"b", "/", "b">>
    /\ res.ContentLength = 1
    /\ initErr = InvalidRangeHeader

\* ------------------------------------------------- the default policy, stepped
\*
\* Init's tail on a rangeable resource, one step per statement: the default
\* concurrency, the default chunk size, the plan. The session starts with the
\* probe done, the total size known and ChunkSize unset. numCPU is what runtime.NumCPU() returns
\* when Init calls it, and 0 in a session whose Concurrency is set, where it is
\* not called.

MaxPolicyCPU == 8
MaxPolicyTotal == 4
MaxPolicyConc == 3
MaxPlanLen == 6

PolicyTotals ==
    (0..MaxPolicyTotal)
        \cup {10, 1000000, DefaultMin - 1, DefaultMin, DefaultMin + 1, 3000000,
              2 * DefaultMin, 2 * DefaultMin + 1, HalveAbove - 1, HalveAbove,
              HalveAbove + 1, 2 * HalveAbove, 2 * HalveAbove + 1, 2000000000}

PolicyMins == {0, 1, 3, 8, DefaultMin, 4000000}

PolicyMaxs == {0, 1, 2, 5, 300000, 1048576, 4000000}

PolicyInit ==
    /\ ChunkSize = 0
    /\ Concurrency \in 0..MaxPolicyConc
    /\ MinChunkSize \in PolicyMins
    /\ MaxChunkSize \in PolicyMaxs
    /\ numCPU \in IF Concurrency = 0 THEN 1..MaxPolicyCPU ELSE {0}
    /\ canceled = FALSE
    /\ res = NoResponse
    /\ info \in [Size : PolicyTotals, Rangeable : {TRUE}]
    /\ chunks = <<>>
    /\ size = 1
    /\ fileLen = 1
    /\ fileOpen = FALSE
    /\ pc = "concurrency"
    /\ initErr = None
    /\ startCalled = FALSE
    /\ startErr = None
    /\ errs = <<>>
    /\ max = 0
    /\ wg = 0
    /\ dlPc = "none"
    /\ dlI = 0
    /\ wpc = <<>>
    /\ wres = <<>>
    /\ werr = <<>>
    /\ written = <<>>
    /\ counted = <<>>
    /\ requests = <<>>
    /\ cancelEarly = FALSE
    /\ selPending = <<>>
    /\ firstSent = None
    /\ URL = SampleURL
    /\ Dir = <<>>
    /\ Dest = <<>>
    /\ unsafeName = NoDisposition
    /\ path = Path([URL |-> SampleURL, Dir |-> <<>>, Dest |-> <<>>,
                     unsafeName |-> NoDisposition, path |-> <<>>])
    /\ probeFile = path
    /\ startFile = NoFile

policyVars == <<ChunkSize, Concurrency, chunks, pc, initErr>>

policyRest == <<MinChunkSize, MaxChunkSize, numCPU, canceled, res, info, size,
                fileLen, fileOpen, startCalled, startErr, errs, max, wg, dlPc,
                dlI, wpc, wres, werr, written, counted, requests, cancelEarly,
                selPending, firstSent, URL, Dir, Dest, unsafeName, path,
                probeFile, startFile>>

\* if d.Concurrency == 0 { d.Concurrency = getDefaultConcurrency() }
PolicyConcurrency ==
    /\ pc = "concurrency"
    /\ Concurrency' = IF Concurrency = 0 THEN getDefaultConcurrency(numCPU)
                      ELSE Concurrency
    /\ pc' = "chunkSize"
    /\ UNCHANGED <<ChunkSize, chunks, initErr>>
    /\ UNCHANGED policyRest

\* if d.ChunkSize == 0 { d.ChunkSize = getDefaultChunkSize(...) }
PolicyChunkSize ==
    /\ pc = "chunkSize"
    /\ ChunkSize' = IF ChunkSize = 0
                    THEN getDefaultChunkSize(info.Size, MinChunkSize,
                                             MaxChunkSize, Concurrency)
                    ELSE ChunkSize
    /\ pc' = "plan"
    /\ UNCHANGED <<Concurrency, chunks, initErr>>
    /\ UNCHANGED policyRest

\* chunksLen := d.info.Size / d.ChunkSize and the loop that fills d.chunks.
\* Plans of more than MaxPlanLen chunks are not followed.
PolicyPlan ==
    /\ pc = "plan"
    /\ IF ChunkSize = 0 THEN TRUE ELSE info.Size \div ChunkSize <= MaxPlanLen
    /\ IF ChunkSize = 0
       THEN /\ initErr' = DivideByZero
            /\ chunks' = chunks
       ELSE /\ initErr' = Nil
            /\ chunks' = PlanChunks(info.Size, ChunkSize)
    /\ pc' = "planned"
    /\ UNCHANGED <<ChunkSize, Concurrency>>
    /\ UNCHANGED policyRest

PolicyNext == PolicyConcurrency \/ PolicyChunkSize \/ PolicyPlan

PolicySpec == PolicyInit /\ [][PolicyNext]_vars

\* clamp(v, lo, hi)
Clamp(v, lo, hi) == IF v < lo THEN lo ELSE IF v > hi THEN hi ELSE v

\* Init took the default concurrency: runtime.NumCPU() was called.
DefaultConcurrencyUsed == pc # "concurrency" /\ numCPU >= 1

\* C11: for every NumCPU >= 1 the default concurrency lies within [4, 20] and
\* equals clamp(3 * NumCPU, 4, 20).
C11_DefaultConcurrencyClamped ==
    DefaultConcurrencyUsed
    => /\ Concurrency \in 4..20
       /\ Concurrency = Clamp(3 * numCPU, 4, 20)

\* Init took the default chunk size.
DefaultChunkSizeUsed == pc \in {"plan", "planned"}

\* C12: for every totalSize > 0, every min and max (set or unset) and every
\* concurrency >= 1 the default chunk size is at most totalSize / 2, so the
\* session is planned with at least 2 chunks.
C12_DefaultChunkSizeAtMostHalf ==
    /\ (DefaultChunkSizeUsed /\ info.Size > 0)
       => ChunkSize <= info.Size \div 2
    /\ (pc = "planned" /\ info.Size > 0)
       => initErr = Nil /\ Len(chunks) >= 2

\* C13: when an explicit max > 0 is given the default chunk size is at most
\* max, for every totalSize, min and concurrency, also when min > max.
C13_DefaultChunkSizeAtMostMax ==
    (DefaultChunkSizeUsed /\ MaxChunkSize > 0) => ChunkSize <= MaxChunkSize

\* The maximum decides against a larger minimum: the share of each worker and
\* the minimum are both above the maximum, and the maximum is returned.
C13_Witness ==
    /\ DefaultChunkSizeUsed
    /\ MaxChunkSize > 0
    /\ MinChunkSize > MaxChunkSize
    /\ MinChunkSize < info.Size
    /\ ChunkSize = MaxChunkSize

\* The reference plan: n = ceil(totalSize / chunkSize) chunks, chunk i (from 0)
\* spanning [i * chunkSize, min((i + 1) * chunkSize, totalSize) - 1].
CeilDiv(a, b) == (a + b - 1) \div b

ReferencePlan(totalSize, chunkSize) ==
    [k \in 1..CeilDiv(totalSize, chunkSize) |->
        [Start |-> (k - 1) * chunkSize,
         End |-> (IF k * chunkSize < totalSize THEN k * chunkSize
                  ELSE totalSize) - 1]]

\* Init planned the chunks of a resource of at least one byte.
PlanDone == pc = "planned" /\ initErr = Nil /\ info.Size > 0

\* The example of the reference plan: 1,000,000 bytes in chunks of 300,000.
PlanExample ==
    (PlanDone /\ info.Size = 1000000 /\ ChunkSize = 300000) => Len(chunks) = 4

\* C14: the chunk list Init plans equals the reference ceiling-division plan;
\* in particular totalSize = 1,000,000 with chunkSize = 300,000 yields exactly
\* 4 chunks.
C14_PlanIsReference ==
    /\ PlanDone => chunks = ReferencePlan(info.Size, ChunkSize)
    /\ PlanExample

\* --------------------------------------------------- the destination path
\*
\* The calls of Path() in a rangeable session: the caller's own calls at any
\* time, the probe's after it has stored the content-disposition value, and
\* Start's. Between Init and Start the caller may change URL, Dir or Dest.

MaxNameLen == 2

NameChars == {"a", ".", "/", "\\"}

\* The filename values servers send: every string of up to MaxNameLen
\* characters, as a token and as a quoted string.
Names == UNION {[1..k -> NameChars] : k \in 0..MaxNameLen}

FilenameValues == Names \cup {<<"\"">> \o n \o <<"\"">> : n \in Names}

\* "attachment", a type with a subtype, and no type at all.
MediaTypes == {<<"a">>, <<"a", "/", "x">>, <<>>}

\* What follows the filename parameter: nothing, a second parameter with a
\* quoted "/", a trailing ";".
MoreParams == {<<>>, <<";", " ", "x", "=", "\"", "/", "\"">>, <<";">>}

\* res.Header.Get("content-disposition") of the sampled servers.
Dispositions ==
    {<<>>}
    \cup {mt \o more : mt \in MediaTypes, more \in MoreParams}
    \cup {mt \o <<";", " ">> \o FilenameKey \o <<"=">> \o v \o more :
            mt \in MediaTypes, v \in FilenameValues, more \in MoreParams}

\* d.URL: "http://h/a.a", "http://h/a", "http://h/a/.." and a URL url.Parse
\* rejects.
PathURLs == {SampleURL,
             [ok |-> TRUE, Path |-> <<"/", "a">>],
             [ok |-> TRUE, Path |-> <<"/", "a", "/", ".", ".">>],
             [ok |-> FALSE, Path |-> <<>>]}

PathDirs == {<<>>, <<"o">>, <<"o", "/">>}

PathDests == {<<>>, <<"d">>, <<".", ".", "/", "d">>}

PathInit ==
    /\ ChunkSize = 1
    /\ Concurrency = 1
    /\ MinChunkSize = 0
    /\ MaxChunkSize = 0
    /\ numCPU = 0
    /\ canceled = FALSE
    /\ res = NoResponse
    /\ info = [Size |-> 0, Rangeable |-> FALSE]
    /\ chunks = <<>>
    /\ size = 0
    /\ fileLen = -1
    /\ fileOpen = FALSE
    /\ pc = "probe"
    /\ initErr = None
    /\ startCalled = FALSE
    /\ startErr = None
    /\ errs = <<>>
    /\ max = 0
    /\ wg = 0
    /\ dlPc = "none"
    /\ dlI = 0
    /\ wpc = <<>>
    /\ wres = <<>>
    /\ werr = <<>>
    /\ written = <<>>
    /\ counted = <<>>
    /\ requests = <<>>
    /\ cancelEarly = FALSE
    /\ selPending = <<>>
    /\ firstSent = None
    /\ URL \in PathURLs
    /\ Dir \in PathDirs
    /\ Dest \in PathDests
    /\ unsafeName = <<>>
    /\ path = <<>>
    /\ probeFile = NoFile
    /\ startFile = NoFile

pathRest == <<ChunkSize, Concurrency, MinChunkSize, MaxChunkSize, numCPU,
              canceled, res, chunks, size, fileLen, fileOpen, initErr,
              startCalled, startErr, errs, max, wg, dlPc, dlI, wpc, wres, werr,
              written, counted, requests, cancelEarly, selPending, firstSent>>

\* The caller calls d.Path().
PathCall ==
    /\ path' = Path(PathFields(unsafeName))
    /\ path' # path
    /\ UNCHANGED <<URL, Dir, Dest, unsafeName, probeFile, startFile, pc, info>>
    /\ UNCHANGED pathRest

\* GetInfoOrDownload from the content-disposition header to os.Create, on a
\* response that makes the session rangeable.
PathProbe ==
    /\ pc = "probe"
    /\ \E h \in Dispositions :
        /\ unsafeName' = h
        /\ path' = Path(PathFields(h))
        /\ probeFile' = path'
    /\ info' = [Size |-> 1, Rangeable |-> TRUE]
    /\ pc' = "Start"
    /\ UNCHANGED <<URL, Dir, Dest, startFile>>
    /\ UNCHANGED pathRest

\* Between Init and Start the caller assigns one of the exported fields.
PathChange ==
    /\ pc = "Start"
    /\ \/ URL' \in PathURLs \ {URL} /\ UNCHANGED <<Dir, Dest>>
       \/ Dir' \in PathDirs \ {Dir} /\ UNCHANGED <<URL, Dest>>
       \/ Dest' \in PathDests \ {Dest} /\ UNCHANGED <<URL, Dir>>
    /\ pc' = "changed"
    /\ UNCHANGED <<unsafeName, path, probeFile, startFile, info>>
    /\ UNCHANGED pathRest

\* Start's os.Create(d.Path()).
PathStart ==
    /\ pc \in {"Start", "changed"}
    /\ path' = Path(PathFields(unsafeName))
    /\ startFile' = path'
    /\ pc' = "select"
    /\ UNCHANGED <<URL, Dir, Dest, unsafeName, probeFile, info>>
    /\ UNCHANGED pathRest

PathNext == PathCall \/ PathProbe \/ PathChange \/ PathStart

PathSpec == PathInit /\ [][PathNext]_vars

\* s contains "..", "/" or "\".
Unsafe(s) ==
    \/ Contains(s, <<".", ".">>)
    \/ Contains(s, <<"/">>)
    \/ Contains(s, <<"\\">>)

\* The probe stored a content-disposition value.
HeaderSeen == pc # "probe" /\ unsafeName # <<>>

\* C15 as stated: for every content-disposition value that contains "..", "/"
\* or "\" getNameFromHeader returns the empty string.
C15_UnsafeHeaderRejected ==
    (HeaderSeen /\ Unsafe(unsafeName)) => getNameFromHeader(unsafeName) = <<>>

\* The filename parameter of the stored content-disposition value.
HeaderFilename == Param(ParseMediaType(unsafeName).params, FilenameKey)

\* The path the probe resolves, right after Init, is Dir joined with the name
\* of the session or with the header's name.
ProbePathFrom(name) == pc = "Start" /\ path = Join(Dir, name)

\* C15: for every content-disposition value that does not parse or whose
\* filename parameter contains "..", "/" or "\" getNameFromHeader returns the
\* empty string; the name it returns never contains any of them, and the path
\* the probe resolves is Dir joined with Dest, with the URL's name or with such
\* a name.
C15_UnsafeFilenameRejected ==
    HeaderSeen
    => /\ (~ParseMediaType(unsafeName).ok \/ Unsafe(HeaderFilename))
          => getNameFromHeader(unsafeName) = <<>>
       /\ ~Unsafe(getNameFromHeader(unsafeName))
       /\ pc = "Start"
          => \/ Dest # <<>> /\ ProbePathFrom(Dest)
             \/ ProbePathFrom(GetFilename(URL))
             \/ /\ getNameFromHeader(unsafeName) # <<>>
                /\ ProbePathFrom(getNameFromHeader(unsafeName))

\* A header that parses and whose quoted filename is "..": the name is
\* rejected and the probe creates the file under the URL's name.
C15_Witness ==
    /\ HeaderSeen
    /\ ParseMediaType(unsafeName).ok
    /\ HeaderFilename = <<".", ".">>
    /\ getNameFromHeader(unsafeName) = <<>>
    /\ Dest = <<>>
    /\ probeFile = Join(Dir, GetFilename(URL))

\* The probe returned without an error (an Init that fails after it fails in
\* the division of the planner).
ProbeReturnedNil == pc # "Init" /\ initErr \in {Nil, DivideByZero}

\* The total a content-range value with a readable total announces.
TotalOf(cr) == ParseUint(Split(cr)[2]).val

\* C16: the probe (status < 300) returns rangeable=true with totalSize=TOTAL if
\* and only if the response carries a content-range header of the form
\* "bytes X-Y/TOTAL" with a parsable TOTAL and the response body is exactly 1
\* byte long; in every other non-failing case it returns rangeable=false with
\* totalSize 0. (From rangeable=true only a readable total is asked here, with
\* or without the "bytes X-Y" part.)
C16_RangeableIffOneByteRange ==
    ProbeReturnedNil
    => /\ info.Rangeable
          => /\ HasTotal(res.contentRange)
             /\ res.body = 1
             /\ info.Size = TotalOf(res.contentRange)
       /\ (IsBytesRange(res.contentRange) /\ res.body = 1)
          => /\ info.Rangeable
             /\ info.Size = TotalOf(res.contentRange)
       /\ ~info.Rangeable => info.Size = 0

\* OffsetWriter of worker i: dst.offset starts at the chunk's Start and
\* advances by the bytes each WriteAt has written.
WriterOffset(i) == chunks[i].Start + written[i]

\* The file offsets worker i has written through its OffsetWriter.
WrittenOffsets(i) == chunks[i].Start..(WriterOffset(i) - 1)

\* The workers that have written file offset o.
WritersOf(o) == {i \in Workers : o \in WrittenOffsets(i)}

\* C17: every byte a chunk worker writes lands at a file offset inside its own
\* chunk's [start, end], so no file offset is written by two different
\* workers; when Start returns nil every offset in [0, totalSize) has been
\* written exactly once.
C17_DisjointWritesCoverFile ==
    Planned
    => /\ \A i \in Workers :
            WrittenOffsets(i) \subseteq chunks[i].Start..chunks[i].End
       /\ \A o \in 0..(info.Size - 1) : Cardinality(WritersOf(o)) <= 1
       /\ (StartReturned /\ startErr = Nil)
          => \A o \in 0..(info.Size - 1) : Cardinality(WritersOf(o)) = 1

\* The workers still running: launched and not yet returned.
StillRunning ==
    {i \in Workers : wpc[i] \in {"request", "check", "copy", "send", "release"}}

\* C18: a semaphore slot is acquired before each worker is launched and
\* released when that worker's work ends, on the failure path as well as on
\* the success path, so the number of occupied slots always equals the number
\* of workers still running (outside dl's step from the acquisition to the
\* launch, where the slot of the next worker is already taken).
C18_SlotsAreRunningWorkers ==
    dlPc # "spawn" => max = Cardinality(StillRunning)

\* C19: for every rangeable probe result with totalSize >= 1 and ChunkSize
\* unset, the chunk size Init computes with the default policy is > 0, so
\* Init's division never divides by zero.
C19_DefaultChunkSizePositive ==
    /\ (DefaultChunkSizeUsed /\ info.Rangeable /\ info.Size >= 1)
       => ChunkSize > 0
    /\ (pc = "planned" /\ info.Rangeable /\ info.Size >= 1)
       => initErr # DivideByZero

\* The name the first resolution of Path() uses, given the content-disposition
\* value stored by then.
FirstName(unsafe) ==
    IF Dest # <<>> THEN Dest
    ELSE IF getNameFromHeader(unsafe) # <<>> THEN getNameFromHeader(unsafe)
    ELSE GetFilename(URL)

\* The probe and Start have both called os.Create.
BothCreated == probeFile # NoFile /\ startFile # NoFile

\* A call of Path() leaves a resolved path as it is, and the first resolution
\* gives a non-empty path: Dir joined with Dest, else with the header's name,
\* else with the URL's name.
PathCallStep ==
    /\ path # <<>> => path' = path
    /\ path' # path => path' = Join(Dir, FirstName(unsafeName')) /\ path' # <<>>

\* C20: the destination path is resolved once and cached: after the first call
\* of Path() every later call returns the same value whatever the session's
\* fields are changed to, so the file the probe creates and the file Start
\* pre-sizes are the same path; the first resolution picks Dest if set, else a
\* non-empty name from the content-disposition header, else the URL-derived
\* name, joined to Dir.
C20_PathResolvedOnce ==
    /\ [](BothCreated => startFile = probeFile)
    /\ [][PathCallStep]_vars

\* C20 witness: the probe resolved the path from the header's name, the caller
\* then changed the session so that a fresh resolution would give another
\* path, and Start created the file under the probe's path.
C20_Witness ==
    /\ BothCreated
    /\ startFile = probeFile
    /\ getNameFromHeader(unsafeName) # <<>>
    /\ PathUncached(PathFields(unsafeName)) # startFile

====
